---------------------------- MODULE Spec2Model ----------------------------
(***************************************************************************)
(* Model of lib/backend/model/block.go: the IPAM block key codec           *)
(* (BlockKey.defaultPath, BlockListOptions.defaultPathRoot,                *)
(* BlockListOptions.KeyFromDefaultPath) and the AllocationBlock ledger.    *)
(*                                                                         *)
(* A Go string is a sequence of one-character strings.  An IP is a         *)
(* sequence of bytes (<<>> is the nil slice), an IPMask of n leading ones  *)
(* in a mask of b bits is [ones |-> n, bits |-> b].                        *)
(***************************************************************************)
EXTENDS Integers, Sequences, FiniteSets, TLC

VARIABLES
    pc,        \* which call of the codec has just returned
    input,     \* the argument the caller holds
    encKey,    \* receiver of the last defaultPath / defaultDeletePath call
    encPath,   \* the string it returned
    encErr,    \* the error it returned
    decIn,     \* argument of the last KeyFromDefaultPath call
    decRes,    \* what it returned (or that it panicked)
    rootOut,   \* result of the last defaultPathRoot call
    block,     \* the in-memory AllocationBlock
    lastOp,    \* the last ledger operation and what it returned
    store,     \* the datastore's copy of the block and its revision
    writers    \* per node: the read-mutate-CAS-write cycle in progress

codecVars == <<pc, input, encKey, encPath, encErr, decIn, decRes, rootOut>>
ledgerVars == <<block, lastOp>>
casVars == <<store, writers>>
vars == <<codecVars, ledgerVars, casVars>>

(***************************************************************************)
(* Characters and numbers                                                  *)
(***************************************************************************)
HexDigits == <<"0", "1", "2", "3", "4", "5", "6", "7", "8", "9",
               "a", "b", "c", "d", "e", "f">>
UpperHex == <<"A", "B", "C", "D", "E", "F">>

IsDigit(c) == \E i \in 1..10 : HexDigits[i] = c
DigitVal(c) == (CHOOSE i \in 1..10 : HexDigits[i] = c) - 1
IsLowerHex(c) == \E i \in 1..16 : HexDigits[i] = c
IsUpperHex(c) == \E i \in 1..6 : UpperHex[i] = c
IsHexDigit(c) == IsLowerHex(c) \/ IsUpperHex(c)
HexVal(c) ==
    IF IsLowerHex(c) THEN (CHOOSE i \in 1..16 : HexDigits[i] = c) - 1
    ELSE (CHOOSE i \in 1..6 : UpperHex[i] = c) + 9

\* strconv-style decimal of a non-negative integer (net.uitoa, fmt %d)
RECURSIVE uitoa(_)
uitoa(n) ==
    IF n < 10 THEN <<HexDigits[n + 1]>>
    ELSE uitoa(n \div 10) \o <<HexDigits[(n % 10) + 1]>>

\* fmt.Sprintf("%d", n)
SprintfD(n) == IF n < 0 THEN <<"-">> \o uitoa(0 - n) ELSE uitoa(n)

\* net.appendHex: lower-case hexadecimal without leading zeros
RECURSIVE appendHex(_)
appendHex(n) ==
    IF n < 16 THEN <<HexDigits[n + 1]>>
    ELSE appendHex(n \div 16) \o <<HexDigits[(n % 16) + 1]>>

\* strings.Replace(s, old, new, n) for one-character old and new
RECURSIVE Replace(_, _, _, _)
Replace(s, old, new, n) ==
    IF s = <<>> \/ n = 0 THEN s
    ELSE IF Head(s) = old
         THEN <<new>> \o Replace(Tail(s), old, new, n - 1)
         ELSE <<Head(s)>> \o Replace(Tail(s), old, new, n)

\* strings.HasPrefix
HasPrefix(s, p) == Len(s) >= Len(p) /\ SubSeq(s, 1, Len(p)) = p

\* position of the first c in s, 0 when there is none (net.byteIndex + 1)
byteIndex(s, c) ==
    IF \E i \in 1..Len(s) : s[i] = c
    THEN CHOOSE i \in 1..Len(s) : s[i] = c /\ \A j \in 1..(i - 1) : s[j] /= c
    ELSE 0

(***************************************************************************)
(* net.IP, net.IPMask, net.IPNet                                           *)
(***************************************************************************)
NilIP == <<>>
NilMask == [ones |-> 0, bits |-> 0]
v4InV6Prefix == <<0, 0, 0, 0, 0, 0, 0, 0, 0, 0, 255, 255>>

\* IP.To4
To4(ip) ==
    IF Len(ip) = 4 THEN ip
    ELSE IF Len(ip) = 16 /\ SubSeq(ip, 1, 12) = v4InV6Prefix
         THEN SubSeq(ip, 13, 16)
         ELSE NilIP

\* net.CIDRMask
CIDRMask(ones, bits) == [ones |-> ones, bits |-> bits]

\* byte i (from 1) of a mask
MaskByte(m, i) ==
    LET k == m.ones - 8 * (i - 1)
    IN  IF k >= 8 THEN 255 ELSE IF k <= 0 THEN 0 ELSE 256 - 2 ^ (8 - k)

\* b & mb for a mask byte mb of leading ones
AndByte(b, mb) == b - (b % (256 - mb))

\* mask[12:] of a 16-byte mask
MaskTail(m) ==
    [ones |-> IF m.ones > 96 THEN m.ones - 96 ELSE 0, bits |-> 32]

\* IP.Mask
IPMaskOf(ip, mask) ==
    LET m1 == IF mask.bits = 128 /\ Len(ip) = 4 /\ mask.ones >= 96
              THEN MaskTail(mask) ELSE mask
        ip1 == IF m1.bits = 32 /\ Len(ip) = 16
                  /\ SubSeq(ip, 1, 12) = v4InV6Prefix
               THEN SubSeq(ip, 13, 16) ELSE ip
    IN  IF Len(ip1) * 8 /= m1.bits THEN NilIP
        ELSE [i \in 1..Len(ip1) |-> AndByte(ip1[i], MaskByte(m1, i))]

\* net.networkNumberAndMask: the address and mask an IPNet stands for
networkNumberAndMask(n) ==
    LET p4 == To4(n.IP)
        ip == IF p4 /= NilIP THEN p4 ELSE n.IP
    IN  IF p4 = NilIP /\ Len(n.IP) /= 16 THEN [ip |-> NilIP, m |-> NilMask]
        ELSE IF n.Mask.bits = 32
             THEN IF Len(ip) /= 4 THEN [ip |-> NilIP, m |-> NilMask]
                  ELSE [ip |-> ip, m |-> n.Mask]
        ELSE IF n.Mask.bits = 128
             THEN IF Len(ip) = 4 THEN [ip |-> ip, m |-> MaskTail(n.Mask)]
                  ELSE [ip |-> ip, m |-> n.Mask]
        ELSE [ip |-> NilIP, m |-> NilMask]

\* the eight 16-bit groups of a 16-byte address
Groups(ip) == [i \in 1..8 |-> ip[2 * i - 1] * 256 + ip[2 * i]]

\* number of consecutive zero groups starting at group i
RECURSIVE ZeroRun(_, _)
ZeroRun(g, i) == IF i > 8 \/ g[i] /= 0 THEN 0 ELSE 1 + ZeroRun(g, i + 1)

\* IP.String for a 16-byte address that is not IPv4: the first longest run
\* of two or more zero groups is written "::"
RECURSIVE FormatGroups(_, _, _, _)
FormatGroups(g, i, e0, e1) ==
    IF i > 8 THEN <<>>
    ELSE IF i = e0
         THEN <<":", ":">> \o
              (IF e1 > 8 THEN <<>>
               ELSE appendHex(g[e1]) \o FormatGroups(g, e1 + 1, e0, e1))
         ELSE (IF i > 1 THEN <<":">> ELSE <<>>) \o appendHex(g[i])
              \o FormatGroups(g, i + 1, e0, e1)

IPv6String(ip) ==
    LET g == Groups(ip)
        best == CHOOSE n \in 0..8 :
                    /\ \E i \in 1..8 : ZeroRun(g, i) = n
                    /\ \A i \in 1..8 : ZeroRun(g, i) <= n
        e0 == IF best <= 1 THEN 0
              ELSE CHOOSE i \in 1..8 :
                       /\ ZeroRun(g, i) = best
                       /\ \A j \in 1..(i - 1) : ZeroRun(g, j) < best
    IN  FormatGroups(g, 1, e0, e0 + best)

IPv4String(p) ==
    uitoa(p[1]) \o <<".">> \o uitoa(p[2]) \o <<".">> \o uitoa(p[3])
    \o <<".">> \o uitoa(p[4])

\* IP.String
IPString(ip) ==
    IF Len(ip) = 0 THEN <<"<", "n", "i", "l", ">">>
    ELSE IF To4(ip) /= NilIP THEN IPv4String(To4(ip))
    ELSE IF Len(ip) = 16 THEN IPv6String(ip)
    ELSE <<"?">>

\* IPNet.String
IPNetString(n) ==
    LET nm == networkNumberAndMask(n)
    IN  IF nm.ip = NilIP THEN <<"<", "n", "i", "l", ">">>
        ELSE IPString(nm.ip) \o <<"/">> \o uitoa(nm.m.ones)

\* Version without To4: an IPv4 address held in 16 bytes counts as IPv6
Version_ByLength(n) == IF Len(n.IP) = 4 THEN 4 ELSE 6

\* IPNet.Version, for addresses of 4 or 16 bytes
Version(n) == IF To4(n.IP) = NilIP THEN 6 ELSE 4

(***************************************************************************)
(* net.ParseCIDR                                                           *)
(***************************************************************************)
\* net.dtoi: decimal number starting at position i0 of s
RECURSIVE dtoiLoop(_, _, _)
dtoiLoop(s, i, n) ==
    IF i <= Len(s) /\ IsDigit(s[i])
    THEN LET n2 == n * 10 + DigitVal(s[i])
         IN  IF n2 >= 16777215 THEN [n |-> 0, i |-> i, ok |-> FALSE]
             ELSE dtoiLoop(s, i + 1, n2)
    ELSE [n |-> n, i |-> i, ok |-> TRUE]

dtoi(s, i0) ==
    LET r == dtoiLoop(s, i0, 0)
    IN  IF r.ok /\ r.i = i0 THEN [n |-> 0, i |-> i0, ok |-> FALSE] ELSE r

\* net.xtoi: hexadecimal number starting at position i0 of s
RECURSIVE xtoiLoop(_, _, _)
xtoiLoop(s, i, n) ==
    IF i <= Len(s) /\ IsHexDigit(s[i])
    THEN LET n2 == n * 16 + HexVal(s[i])
         IN  IF n2 >= 16777215 THEN [n |-> 0, i |-> i, ok |-> FALSE]
             ELSE xtoiLoop(s, i + 1, n2)
    ELSE [n |-> n, i |-> i, ok |-> TRUE]

xtoi(s, i0) ==
    LET r == xtoiLoop(s, i0, 0)
    IN  IF r.ok /\ r.i = i0 THEN [n |-> 0, i |-> i0, ok |-> FALSE] ELSE r

\* net.parseIPv4: four decimal fields; the result is the 16-byte form
RECURSIVE parseIPv4Loop(_, _, _, _)
parseIPv4Loop(s, i, j, p) ==
    IF j = 4 THEN (IF i /= Len(s) + 1 THEN NilIP ELSE v4InV6Prefix \o p)
    ELSE IF i > Len(s) THEN NilIP
    ELSE IF j > 0 /\ s[i] /= "." THEN NilIP
    ELSE LET r == dtoi(s, IF j > 0 THEN i + 1 ELSE i)
         IN  IF ~r.ok \/ r.n > 255 THEN NilIP
             ELSE parseIPv4Loop(s, r.i, j + 1, Append(p, r.n))

parseIPv4(s) == parseIPv4Loop(s, 1, 0, <<>>)

\* the loop of net.parseIPv6, one field per round: ip holds the bytes read
\* so far, ellipsis the byte offset of "::" or -1
ParseFail == [ok |-> FALSE, i |-> 0, ip |-> NilIP, ellipsis |-> -1]
ParseDone(i, ip, ellipsis) ==
    [ok |-> TRUE, i |-> i, ip |-> ip, ellipsis |-> ellipsis]

\* a field followed by a dot: the rest is a trailing IPv4 address ip4
parseIPv6Dotted(s, ip, ellipsis, ip4) ==
    IF ellipsis < 0 /\ Len(ip) /= 12 THEN ParseFail
    ELSE IF Len(ip) + 4 > 16 THEN ParseFail
    ELSE IF ip4 = NilIP THEN ParseFail
    ELSE ParseDone(Len(s) + 1, ip \o SubSeq(ip4, 13, 16), ellipsis)

RECURSIVE parseIPv6Loop(_, _, _, _)

\* after a field was stored: i is the position behind it
parseIPv6Sep(s, i, ip, ellipsis) ==
    IF i = Len(s) + 1 THEN ParseDone(i, ip, ellipsis)
    ELSE IF s[i] /= ":" \/ i + 1 = Len(s) + 1 THEN ParseFail
    ELSE IF s[i + 1] = ":"
    THEN IF ellipsis >= 0 THEN ParseFail
         ELSE IF i + 2 = Len(s) + 1 THEN ParseDone(i + 2, ip, Len(ip))
         ELSE parseIPv6Loop(s, i + 2, ip, Len(ip))
    ELSE parseIPv6Loop(s, i + 1, ip, ellipsis)

\* r is xtoi(s, i)
parseIPv6Field(s, i, ip, ellipsis, r) ==
    IF ~r.ok \/ r.n > 65535 THEN ParseFail
    ELSE IF r.i <= Len(s) /\ s[r.i] = "."
    THEN parseIPv6Dotted(s, ip, ellipsis, parseIPv4(SubSeq(s, i, Len(s))))
    ELSE parseIPv6Sep(s, r.i, ip \o <<r.n \div 256, r.n % 256>>, ellipsis)

parseIPv6Loop(s, i, ip, ellipsis) ==
    IF Len(ip) >= 16 THEN ParseDone(i, ip, ellipsis)
    ELSE parseIPv6Field(s, i, ip, ellipsis, xtoi(s, i))

\* the end of net.parseIPv6: r is what the loop left
parseIPv6Expand(s, r) ==
    IF ~r.ok \/ r.i /= Len(s) + 1 THEN NilIP
    ELSE IF Len(r.ip) < 16
    THEN IF r.ellipsis < 0 THEN NilIP
         ELSE SubSeq(r.ip, 1, r.ellipsis) \o [k \in 1..(16 - Len(r.ip)) |-> 0]
              \o SubSeq(r.ip, r.ellipsis + 1, Len(r.ip))
    ELSE IF r.ellipsis >= 0 THEN NilIP
    ELSE r.ip

\* net.parseIPv6 (no zone)
parseIPv6(s) ==
    IF Len(s) >= 2 /\ s[1] = ":" /\ s[2] = ":"
    THEN IF Len(s) = 2 THEN [k \in 1..16 |-> 0]
         ELSE parseIPv6Expand(s, parseIPv6Loop(s, 3, <<>>, 0))
    ELSE parseIPv6Expand(s, parseIPv6Loop(s, 1, <<>>, -1))

\* net.ParseCIDR: [ok, net]; ok = FALSE is the (nil, nil, err) return
ParseCIDR(s) ==
    LET i == byteIndex(s, "/")
        addr == SubSeq(s, 1, i - 1)
        mask == SubSeq(s, i + 1, Len(s))
        ip4 == parseIPv4(addr)
        iplen == IF ip4 /= NilIP THEN 4 ELSE 16
        ip == IF ip4 /= NilIP THEN ip4 ELSE parseIPv6(addr)
        d == dtoi(mask, 1)
        bad == [ok |-> FALSE, net |-> [IP |-> NilIP, Mask |-> NilMask]]
    IN  IF i = 0 THEN bad
        ELSE IF ip = NilIP \/ ~d.ok \/ d.i /= Len(mask) + 1
                \/ d.n < 0 \/ d.n > 8 * iplen
        THEN bad
        ELSE LET m == CIDRMask(d.n, 8 * iplen)
             IN  [ok |-> TRUE, net |-> [IP |-> IPMaskOf(ip, m), Mask |-> m]]

(***************************************************************************)
(* block.go                                                                *)
(***************************************************************************)
\* "/calico/ipam/v2/assignment/"
AssignmentRoot ==
    <<"/", "c", "a", "l", "i", "c", "o", "/", "i", "p", "a", "m", "/", "v",
      "2", "/", "a", "s", "s", "i", "g", "n", "m", "e", "n", "t", "/">>

NoKey == [CIDR |-> [IP |-> NilIP, Mask |-> NilMask]]

\* the regular expression matchBlock,
\*   ^/?/calico/ipam/v2/assignment/ipv./block/([^/]+)$
\* applied with FindAllStringSubmatch: the submatches, at most one
\* because of the anchors
GroupStart(start) == start + Len(AssignmentRoot) + 3 + 1 + 7

MatchFrom(path, start) ==
    LET lit1 == AssignmentRoot \o <<"i", "p", "v">>
        lit2 == <<"/", "b", "l", "o", "c", "k", "/">>
        a == start + Len(lit1)          \* position of the "." character
        b == GroupStart(start)          \* first position of the group
    IN  /\ Len(path) >= b
        /\ SubSeq(path, start, a - 1) = lit1
        /\ path[a] /= "\n"
        /\ SubSeq(path, a + 1, b - 1) = lit2
        /\ \A i \in b..Len(path) : path[i] /= "/"

\* the pattern without its end anchor: anything may follow the group
UnanchoredGroup(path, start) ==
    LET rest == SubSeq(path, GroupStart(start), Len(path))
    IN  IF byteIndex(rest, "/") = 0 THEN rest
        ELSE SubSeq(rest, 1, byteIndex(rest, "/") - 1)

UnanchoredFrom(path, start) ==
    /\ Len(path) >= GroupStart(start)
    /\ MatchFrom(SubSeq(path, 1, GroupStart(start) - 1)
                 \o UnanchoredGroup(path, start), start)

matchBlock_Unanchored(path) ==
    IF UnanchoredFrom(path, 1) THEN <<UnanchoredGroup(path, 1)>>
    ELSE IF Len(path) >= 1 /\ path[1] = "/" /\ UnanchoredFrom(path, 2)
    THEN <<UnanchoredGroup(path, 2)>>
    ELSE <<>>

matchBlock(path) ==
    IF MatchFrom(path, 1)
    THEN <<SubSeq(path, GroupStart(1), Len(path))>>
    ELSE IF Len(path) >= 1 /\ path[1] = "/" /\ MatchFrom(path, 2)
    THEN <<SubSeq(path, GroupStart(2), Len(path))>>
    ELSE <<>>

\* defaultPath formatting the address alone, key.CIDR.IP.String()
defaultPath_AddressOnly(key) ==
    IF key.CIDR.IP = NilIP
    THEN [path |-> <<>>, err |-> "ErrorInsufficientIdentifiers"]
    ELSE [path |-> AssignmentRoot \o <<"i", "p", "v">>
                   \o SprintfD(Version(key.CIDR))
                   \o <<"/", "b", "l", "o", "c", "k", "/">>
                   \o Replace(IPString(key.CIDR.IP), "/", "-", 1),
          err |-> "nil"]

\* BlockKey.defaultPath: [path, err]
defaultPath(key) ==
    IF key.CIDR.IP = NilIP
    THEN [path |-> <<>>, err |-> "ErrorInsufficientIdentifiers"]
    ELSE LET c == Replace(IPNetString(key.CIDR), "/", "-", 1)
             e == AssignmentRoot \o <<"i", "p", "v">>
                  \o SprintfD(Version(key.CIDR))
                  \o <<"/", "b", "l", "o", "c", "k", "/">> \o c
         IN  [path |-> e, err |-> "nil"]

\* defaultDeletePath building the path without the check for an unset CIDR
defaultDeletePath_Unchecked(key) ==
    [path |-> AssignmentRoot \o <<"i", "p", "v">>
              \o SprintfD(Version(key.CIDR))
              \o <<"/", "b", "l", "o", "c", "k", "/">>
              \o Replace(IPNetString(key.CIDR), "/", "-", 1),
     err |-> "nil"]

\* BlockKey.defaultDeletePath
defaultDeletePath(key) == defaultPath(key)

\* defaultPathRoot with the format "ipv%d", the closing slash forgotten
defaultPathRoot_NoSlash(options) ==
    IF options.IPVersion /= 0
    THEN AssignmentRoot \o <<"i", "p", "v">> \o SprintfD(options.IPVersion)
    ELSE AssignmentRoot

\* BlockListOptions.defaultPathRoot
defaultPathRoot(options) ==
    IF options.IPVersion /= 0
    THEN AssignmentRoot \o <<"i", "p", "v">> \o SprintfD(options.IPVersion)
         \o <<"/">>
    ELSE AssignmentRoot

\* KeyFromDefaultPath parsing the segment as it stands, dash not reversed
KeyFromDefaultPath_DashKept(path) ==
    LET r == matchBlock(path)
    IN  IF Len(r) /= 1 THEN [kind |-> "nil", key |-> NoKey]
        ELSE IF ~ParseCIDR(r[1]).ok THEN [kind |-> "panic", key |-> NoKey]
        ELSE [kind |-> "key", key |-> [CIDR |-> ParseCIDR(r[1]).net]]

\* BlockListOptions.KeyFromDefaultPath: the Key returned (kind "nil" is the
\* nil Key), or kind "panic" when *cidr dereferences the nil *IPNet that
\* ParseCIDR returns with its error
KeyFromDefaultPath(path) ==
    LET r == matchBlock(path)
    IN  IF Len(r) /= 1 THEN [kind |-> "nil", key |-> NoKey]
        ELSE LET cidrStr == Replace(r[1], "-", "/", 1)
                 parsed == ParseCIDR(cidrStr)
             IN  IF ~parsed.ok THEN [kind |-> "panic", key |-> NoKey]
                 ELSE [kind |-> "key", key |-> [CIDR |-> parsed.net]]

(***************************************************************************)
(* Arguments the codec is called with                                      *)
(***************************************************************************)
NumV4Addrs == 4
NumV6Addrs == 4
MaxIPVersion == 12

V4Addrs ==
    <<<<10, 0, 0, 0>>, <<192, 168, 255, 1>>, <<0, 0, 0, 0>>,
      <<255, 255, 255, 255>>, <<9, 99, 100, 254>>, <<172, 16, 1, 128>>>>

V6Addrs ==
    <<<<254, 128, 0, 0, 0, 0, 0, 0, 0, 0, 0, 0, 0, 0, 0, 0>>,
      <<32, 1, 13, 184, 0, 0, 0, 0, 0, 1, 0, 0, 0, 0, 0, 1>>,
      <<0, 0, 0, 0, 0, 0, 0, 0, 0, 0, 0, 0, 0, 0, 0, 0>>,
      <<0, 1, 0, 0, 0, 0, 0, 2, 0, 0, 0, 0, 0, 0, 0, 3>>,
      <<255, 255, 255, 255, 255, 255, 255, 255, 255, 255, 255, 255, 255,
        255, 255, 255>>,
      <<0, 0, 0, 0, 0, 0, 0, 0, 0, 0, 0, 0, 0, 0, 0, 1>>,
      <<18, 52, 0, 0, 0, 0, 171, 205, 0, 0, 0, 0, 0, 0, 0, 9>>>>

Min(a, b) == IF a < b THEN a ELSE b
SampleV4 == {V4Addrs[i] : i \in 1..Min(NumV4Addrs, Len(V4Addrs))}
SampleV6 == {V6Addrs[i] : i \in 1..Min(NumV6Addrs, Len(V6Addrs))}

MkKey(ip, ones, bits) == [CIDR |-> [IP |-> ip, Mask |-> CIDRMask(ones, bits)]]

\* BlockKeys: 4-byte IPv4, IPv4 held in 16 bytes (as net.ParseIP gives)
\* under a 32-bit and under a 128-bit mask, IPv6, and the zero value
Keys ==
    {MkKey(ip, n, 32) : ip \in SampleV4, n \in 0..32}
    \cup {MkKey(v4InV6Prefix \o ip, n, 32) :
              ip \in SampleV4, n \in {0, 8, 24, 30, 32}}
    \cup {MkKey(v4InV6Prefix \o ip, n, 128) :
              ip \in SampleV4, n \in {0, 64, 96, 120, 126, 128}}
    \cup {MkKey(ip, n, 128) :
              ip \in SampleV6,
              n \in {0, 1, 7, 8, 9, 16, 48, 63, 64, 65, 96, 112, 127, 128}}
    \cup {NoKey}

Segments ==
    {<<"1", "0", ".", "0", ".", "0", ".", "0", "-", "3", "0">>,
     <<"1", "0", ".", "0", ".", "0", ".", "1", "-", "3", "0">>,
     <<"1", "9", "2", ".", "1", "6", "8", ".", "2", "5", "5", ".", "0", "-",
       "2", "4">>,
     <<"0", ".", "0", ".", "0", ".", "0", "-", "0">>,
     <<"f", "e", "8", "0", ":", ":", "-", "6", "4">>,
     <<"2", "0", "0", "1", ":", "d", "b", "8", ":", ":", "1", ":", "0", ":",
       "0", ":", "1", "-", "1", "2", "8">>,
     <<":", ":", "-", "0">>,
     <<"F", "E", "8", "0", ":", ":", "-", "6", "4">>,
     <<"0", ":", "0", ":", ":", "1", "-", "1", "2", "8">>,
     <<":", ":", "f", "f", "f", "f", ":", "1", "0", ".", "0", ".", "0", ".",
       "0", "-", "1", "2", "0">>,
     <<"f", "o", "o">>,
     <<"1", "0", ".", "0", ".", "0", ".", "0", "-", "9", "9">>,
     <<"1", "0", ".", "0", ".", "0", ".", "0">>,
     <<"1", "0", ".", "0", ".", "0", ".", "0", "-", "3", "0", "-", "1">>,
     <<"1", "0", ".", "0", ".", "0", ".", "0", "-">>,
     <<"-", "3", "0">>,
     <<"2", "5", "6", ".", "0", ".", "0", ".", "0", "-", "8">>,
     <<"1", "0", ".", "0", ".", "0", ".", "0", "-", "0", "3", "0">>,
     <<"f", "e", "8", "0", ":", ":", "-", "1", "2", "9">>,
     <<"1", ":", ":", "2", ":", ":", "3", "-", "6", "4">>,
     <<"1", "0", ".", "0", ".", "0", ".", "0", "/", "3", "0">>,
     <<>>}

\* keys of other resources and the list-scope prefixes
OtherPaths ==
    {<<>>,
     AssignmentRoot,
     AssignmentRoot \o <<"i", "p", "v", "4", "/">>,
     AssignmentRoot \o <<"i", "p", "v", "6", "/">>,
     AssignmentRoot \o <<"i", "p", "v", "4", "/", "b", "l", "o", "c", "k">>,
     <<"/", "c", "a", "l", "i", "c", "o", "/", "i", "p", "a", "m", "/", "v",
       "2", "/", "h", "o", "s", "t", "/", "n", "o", "d", "e", "1", "/", "i",
       "p", "v", "4", "/", "b", "l", "o", "c", "k", "/", "1", "0", ".", "0",
       ".", "0", ".", "0", "-", "3", "0">>,
     <<"/", "c", "a", "l", "i", "c", "o", "/", "v", "1", "/", "p", "o", "l",
       "i", "c", "y", "/", "t", "i", "e", "r", "/", "d", "e", "f", "a", "u",
       "l", "t">>,
     <<"/", "c", "a", "l", "i", "c", "o", "/", "i", "p", "a", "m", "/", "v",
       "2", "/", "h", "a", "n", "d", "l", "e", "/", "h", "1">>}

\* strings put together like block paths, well-formed or not
Paths ==
    {lead \o Tail(AssignmentRoot) \o <<"i", "p", "v">> \o ver
         \o <<"/", "b", "l", "o", "c", "k", "/">> \o seg \o trail :
       lead \in {<<>>, <<"/">>, <<"/", "/">>},
       ver \in {<<"4">>, <<"6">>, <<"x">>, <<>>, <<"4", "4">>},
       seg \in Segments,
       trail \in {<<>>, <<"/">>, <<"/", "e", "x", "t", "r", "a">>}}
    \cup OtherPaths

IPVersions == (0 - MaxIPVersion)..MaxIPVersion

Inputs ==
    {[kind |-> "key", key |-> k, path |-> <<>>, IPVersion |-> 0] : k \in Keys}
    \cup {[kind |-> "path", key |-> NoKey, path |-> p, IPVersion |-> 0] :
              p \in Paths}
    \cup {[kind |-> "options", key |-> NoKey, path |-> <<>>, IPVersion |-> v] :
              v \in IPVersions}

(***************************************************************************)
(* Values of the ledger and datastore variables while they are not in use  *)
(***************************************************************************)
NoBlock == [Allocations |-> <<>>, Unallocated |-> <<>>, Attributes |-> <<>>,
            HostAffinity |-> "", StrictAffinity |-> FALSE]
NoOp == [op |-> "none", err |-> "nil"]
NoStore == [rev |-> 0, block |-> NoBlock]
NoWriters == <<>>

(***************************************************************************)
(* The codec: a caller holds one argument and calls the functions on it    *)
(***************************************************************************)
Init ==
    /\ pc = "start"
    /\ input \in Inputs
    /\ encKey = NoKey
    /\ encPath = <<>>
    /\ encErr = "nil"
    /\ decIn = <<>>
    /\ decRes = [kind |-> "nil", key |-> NoKey]
    /\ rootOut = <<>>
    /\ block = NoBlock
    /\ lastOp = NoOp
    /\ store = NoStore
    /\ writers = NoWriters

\* key.defaultPath(), on the caller's key or on the key a decode returned
CallDefaultPath ==
    /\ \/ pc = "start" /\ input.kind = "key"
       \/ pc = "KeyFromDefaultPath" /\ decRes.kind = "key"
    /\ LET key == IF pc = "start" THEN input.key ELSE decRes.key
           r == defaultPath(key)
       IN  /\ encKey' = key
           /\ encPath' = r.path
           /\ encErr' = r.err
    /\ pc' = IF pc = "start" THEN "defaultPath" ELSE "encodeOfDecoded"
    /\ UNCHANGED <<input, decIn, decRes, rootOut, ledgerVars, casVars>>

\* key.defaultDeletePath()
CallDefaultDeletePath ==
    /\ pc = "start" /\ input.kind = "key"
    /\ LET r == defaultDeletePath(input.key)
       IN  /\ encKey' = input.key
           /\ encPath' = r.path
           /\ encErr' = r.err
    /\ pc' = "defaultDeletePath"
    /\ UNCHANGED <<input, decIn, decRes, rootOut, ledgerVars, casVars>>

\* options.defaultPathRoot()
CallDefaultPathRoot ==
    /\ pc = "start" /\ input.kind = "options"
    /\ rootOut' = defaultPathRoot([IPVersion |-> input.IPVersion])
    /\ pc' = "defaultPathRoot"
    /\ UNCHANGED <<input, encKey, encPath, encErr, decIn, decRes,
                   ledgerVars, casVars>>

\* options.KeyFromDefaultPath(path), on the caller's string or on the path
\* an encode returned
CallKeyFromDefaultPath ==
    /\ \/ pc = "start" /\ input.kind = "path"
       \/ pc \in {"defaultPath", "defaultDeletePath"} /\ encErr = "nil"
    /\ LET path == IF pc = "start" THEN input.path ELSE encPath
           r == KeyFromDefaultPath(path)
       IN  /\ decIn' = path
           /\ decRes' = r
           /\ pc' = IF pc = "start" THEN "KeyFromDefaultPath"
                    ELSE "decodeOfEncoded"
    /\ UNCHANGED <<input, encKey, encPath, encErr, rootOut,
                   ledgerVars, casVars>>

Next ==
    \/ CallDefaultPath
    \/ CallDefaultDeletePath
    \/ CallDefaultPathRoot
    \/ CallKeyFromDefaultPath

Spec == Init /\ [][Next]_vars

(***************************************************************************)
(* Properties of the codec                                                 *)
(***************************************************************************)
\* what a CIDR identifies: address family, prefix length and network address
IsV4Addr(ip) ==
    \/ Len(ip) = 4
    \/ /\ Len(ip) = 16
       /\ \A i \in 1..10 : ip[i] = 0
       /\ ip[11] = 255 /\ ip[12] = 255
FamilyOf(n) == IF IsV4Addr(n.IP) THEN 4 ELSE 6
AddrOf(n) ==
    IF IsV4Addr(n.IP) /\ Len(n.IP) = 16 THEN SubSeq(n.IP, 13, 16) ELSE n.IP
PrefixOf(n) ==
    IF IsV4Addr(n.IP) /\ n.Mask.bits = 128
    THEN (IF n.Mask.ones > 96 THEN n.Mask.ones - 96 ELSE 0)
    ELSE n.Mask.ones
KeptBits(n, i) ==
    LET k == PrefixOf(n) - 8 * (i - 1)
    IN  IF k > 8 THEN 8 ELSE IF k < 0 THEN 0 ELSE k
NetworkOf(n) ==
    [i \in 1..Len(AddrOf(n)) |->
        AddrOf(n)[i] - (AddrOf(n)[i] % (2 ^ (8 - KeptBits(n, i))))]
SameNetwork(a, b) ==
    /\ FamilyOf(a) = FamilyOf(b)
    /\ PrefixOf(a) = PrefixOf(b)
    /\ NetworkOf(a) = NetworkOf(b)

BlockLit == <<"/", "b", "l", "o", "c", "k", "/">>

\* p is "/calico/ipam/v2/assignment/ipv", one character, "/block/" and a
\* non-empty last segment free of "/", possibly behind one more "/"
BlockPathShape(p) ==
    \E lead \in {<<>>, <<"/">>} :
        \E n \in 1..Len(p) :
            LET head == lead \o AssignmentRoot \o <<"i", "p", "v">>
                h == Len(head)
            IN  /\ Len(p) = h + 1 + Len(BlockLit) + n
                /\ SubSeq(p, 1, h) = head
                /\ p[h + 1] /= "\n"
                /\ SubSeq(p, h + 2, h + 1 + Len(BlockLit)) = BlockLit
                /\ \A i \in (Len(p) - n + 1)..Len(p) : p[i] /= "/"

\* the text behind the last "/" of p
RECURSIVE LastSegment(_)
LastSegment(p) ==
    IF byteIndex(p, "/") = 0 THEN p
    ELSE LastSegment(SubSeq(p, byteIndex(p, "/") + 1, Len(p)))

\* s with its first "/" turned into "-"
DashForm(s) ==
    IF byteIndex(s, "/") = 0 THEN s
    ELSE SubSeq(s, 1, byteIndex(s, "/") - 1) \o <<"-">>
         \o SubSeq(s, byteIndex(s, "/") + 1, Len(s))

\* the number a decimal numeral stands for
RECURSIVE ReadDecimal(_)
ReadDecimal(d) ==
    IF Len(d) = 0 THEN 0
    ELSE IF d[1] = "-" THEN 0 - ReadDecimal(Tail(d))
    ELSE ReadDecimal(SubSeq(d, 1, Len(d) - 1)) * 10 + DigitVal(d[Len(d)])

PathOf10_0_0_0_30 ==
    <<"/", "c", "a", "l", "i", "c", "o", "/", "i", "p", "a", "m", "/", "v",
      "2", "/", "a", "s", "s", "i", "g", "n", "m", "e", "n", "t", "/", "i",
      "p", "v", "4", "/", "b", "l", "o", "c", "k", "/", "1", "0", ".", "0",
      ".", "0", ".", "0", "-", "3", "0">>
RootV4 ==
    <<"/", "c", "a", "l", "i", "c", "o", "/", "i", "p", "a", "m", "/", "v",
      "2", "/", "a", "s", "s", "i", "g", "n", "m", "e", "n", "t", "/", "i",
      "p", "v", "4", "/">>
RootV6 ==
    <<"/", "c", "a", "l", "i", "c", "o", "/", "i", "p", "a", "m", "/", "v",
      "2", "/", "a", "s", "s", "i", "g", "n", "m", "e", "n", "t", "/", "i",
      "p", "v", "6", "/">>

\* C1: decoding the path that defaultPath returned for a key with a CIDR
\* returns a BlockKey for the same network: same family, same prefix
\* length, same network address.
C1_RoundTrip ==
    (pc = "decodeOfEncoded" /\ decIn = encPath)
        => /\ decRes.kind = "key"
           /\ SameNetwork(decRes.key.CIDR, encKey.CIDR)

\* an IPv6 key with host bits set went round: the decoded key is the network
C1_Witness ==
    /\ pc = "decodeOfEncoded"
    /\ decRes.kind = "key"
    /\ FamilyOf(encKey.CIDR) = 6
    /\ encKey.CIDR.Mask.ones = 64
    /\ decRes.key.CIDR.IP /= encKey.CIDR.IP

\* C2: for a key with a CIDR, defaultPath returns exactly
\* "/calico/ipam/v2/assignment/ipv" V "/block/" C, V being 4 or 6 by the
\* family and C the CIDR's text with its first "/" turned into "-";
\* 10.0.0.0/30 gives /calico/ipam/v2/assignment/ipv4/block/10.0.0.0-30.
C2_PathFormat ==
    (pc = "defaultPath" /\ encKey.CIDR.IP /= NilIP)
        => /\ encPath = AssignmentRoot \o <<"i", "p", "v">>
                        \o (IF FamilyOf(encKey.CIDR) = 4 THEN <<"4">>
                            ELSE <<"6">>)
                        \o BlockLit \o DashForm(IPNetString(encKey.CIDR))
           /\ Len(SelectSeq(LastSegment(encPath), LAMBDA c : c = "-")) = 1
           /\ encKey = MkKey(<<10, 0, 0, 0>>, 30, 32)
                  => encPath = PathOf10_0_0_0_30

C2_Witness ==
    /\ pc = "defaultPath"
    /\ encKey = MkKey(<<10, 0, 0, 0>>, 30, 32)
    /\ encPath = PathOf10_0_0_0_30

\* C3: defaultPath and defaultDeletePath of a key without a CIDR return
\* InsufficientIdentifiers and the empty path, and neither fails for a key
\* that has a CIDR.
C3_UnsetCidrFails ==
    pc \in {"defaultPath", "defaultDeletePath", "encodeOfDecoded"}
        => IF encKey.CIDR.IP = NilIP
           THEN encErr = "ErrorInsufficientIdentifiers" /\ encPath = <<>>
           ELSE encErr = "nil" /\ encPath /= <<>>

C3_Witness ==
    /\ pc = "defaultDeletePath"
    /\ encKey = NoKey
    /\ encErr = "ErrorInsufficientIdentifiers"
    /\ encPath = <<>>

\* C4: KeyFromDefaultPath of a string that does not have the shape of a
\* block path (the empty string, a list-scope prefix, a path with further
\* segments behind the CIDR, a key of another resource) returns the nil Key
\* and does not panic.
C4_NonBlockPathIsNil ==
    (pc = "KeyFromDefaultPath" /\ ~BlockPathShape(decIn))
        => decRes.kind = "nil"

C4_Witness ==
    /\ pc = "KeyFromDefaultPath"
    /\ decIn = PathOf10_0_0_0_30 \o <<"/", "e", "x", "t", "r", "a">>
    /\ decRes.kind = "nil"

\* C5: KeyFromDefaultPath of a path that has the shape of a block path but
\* whose last segment, first "-" turned back into "/", is no CIDR reports a
\* decode failure: it returns no BlockKey and does not drop the parse error.
C5_DecodeFailureReported ==
    (/\ pc = "KeyFromDefaultPath"
     /\ BlockPathShape(decIn)
     /\ ~ParseCIDR(Replace(LastSegment(decIn), "-", "/", 1)).ok)
        => decRes.kind = "decodeFailure"

\* C6: defaultPathRoot returns "/calico/ipam/v2/assignment/" for IPVersion 0
\* and "/calico/ipam/v2/assignment/ipvN/" for every other IPVersion N.
C6_PathRoot ==
    pc = "defaultPathRoot"
        => LET v == input.IPVersion
               h == Len(AssignmentRoot) + 3
               numeral == SubSeq(rootOut, h + 1, Len(rootOut) - 1)
           IN  /\ v = 0 => rootOut = AssignmentRoot
               /\ v = 4 => rootOut = RootV4
               /\ v = 6 => rootOut = RootV6
               /\ v /= 0 =>
                     /\ HasPrefix(rootOut, AssignmentRoot \o <<"i", "p", "v">>)
                     /\ Len(rootOut) >= h + 2
                     /\ rootOut[Len(rootOut)] = "/"
                     /\ \A i \in 1..Len(numeral) :
                            IsDigit(numeral[i]) \/ (i = 1 /\ numeral[i] = "-")
                     /\ numeral[IF v < 0 THEN 2 ELSE 1] /= "0"
                     /\ ReadDecimal(numeral) = v

C6_Witness ==
    /\ pc = "defaultPathRoot"
    /\ input.IPVersion = 6
    /\ rootOut = RootV6

\* C9: KeyFromDefaultPath and defaultPath are inverse to each other on the
\* accepted paths: when KeyFromDefaultPath(p) is a BlockKey k, defaultPath
\* of k is p.
C9_DecodeThenEncodeIsIdentity ==
    pc = "encodeOfDecoded" => encErr = "nil" /\ encPath = decIn

\* C10: the path of a key of IP version V starts with defaultPathRoot of
\* IPVersion 0 and of IPVersion V and not with that of the other version.
C10_ListScopeCoverage ==
    (pc = "defaultPath" /\ encErr = "nil")
        => LET V == FamilyOf(encKey.CIDR)
           IN  /\ HasPrefix(encPath, defaultPathRoot([IPVersion |-> 0]))
               /\ HasPrefix(encPath, defaultPathRoot([IPVersion |-> V]))
               /\ ~HasPrefix(encPath, defaultPathRoot([IPVersion |-> 10 - V]))

C10_Witness ==
    /\ pc = "defaultPath"
    /\ FamilyOf(encKey.CIDR) = 6
    /\ HasPrefix(encPath, RootV6)
    /\ ~HasPrefix(encPath, RootV4)

(***************************************************************************)
(* The Block Ledger: operations on one AllocationBlock                     *)
(*                                                                         *)
(* Allocations[o + 1] is the entry of ordinal o: NilIndex when empty,      *)
(* otherwise an index (from 0) into Attributes.  HostAffinity "" is the    *)
(* absent affinity.                                                        *)
(***************************************************************************)
BlockSize == 3
MaxCount == 2

NilIndex == 0 - 1
Handles == {"h1", "h2"}
Hosts == {"nodeA", "nodeB"}
Secondaries == {<<>>}

SeqToSet(q) == {q[i] : i \in 1..Len(q)}

\* the ledger a first claim of the CIDR creates
NewBlock(n, host, strict) ==
    [Allocations |-> [i \in 1..n |-> NilIndex],
     Unallocated |-> [i \in 1..n |-> i - 1],
     Attributes |-> <<>>,
     HostAffinity |-> host,
     StrictAffinity |-> strict]

\* index of the record equal to rec, or Len(attrs) when there is none
AttrIndex(attrs, rec) ==
    IF \E i \in 1..Len(attrs) : attrs[i] = rec
    THEN (CHOOSE i \in 1..Len(attrs) :
              attrs[i] = rec /\ \A j \in 1..(i - 1) : attrs[j] /= rec) - 1
    ELSE Len(attrs)

\* the free ordinals Allocate takes: the first count of Unallocated
TakeOrdinals(b, count) == SubSeq(b.Unallocated, 1, Min(count, Len(b.Unallocated)))

\* Unallocated once Allocate has taken its ordinals
RestOrdinals_KeepTaken(b, count) == b.Unallocated

RestOrdinals(b, count) ==
    SubSeq(b.Unallocated, Min(count, Len(b.Unallocated)) + 1,
           Len(b.Unallocated))

\* Allocate(count, handleID, secondaryAttrs, hostID)
Allocate(b, count, handleID, secondary, hostID) ==
    IF b.StrictAffinity /\ b.HostAffinity /= "" /\ b.HostAffinity /= hostID
    THEN [block |-> b, ordinals |-> <<>>, err |-> "AffinityViolation"]
    ELSE LET rec == [handle_id |-> handleID, secondary |-> secondary]
             idx == AttrIndex(b.Attributes, rec)
         IN  [block |->
                [b EXCEPT
                   !.Attributes = IF idx = Len(b.Attributes)
                                  THEN Append(b.Attributes, rec)
                                  ELSE b.Attributes,
                   !.Allocations =
                       [i \in 1..Len(b.Allocations) |->
                           IF (i - 1) \in SeqToSet(TakeOrdinals(b, count))
                           THEN idx ELSE b.Allocations[i]],
                   !.Unallocated = RestOrdinals(b, count)],
              ordinals |-> TakeOrdinals(b, count),
              err |-> IF Len(b.Unallocated) < count THEN "Shortfall"
                      ELSE "nil"]

\* Release of one ordinal: AlreadyUnallocated when it is free
ReleaseOne(r, o) ==
    IF r.block.Allocations[o + 1] = NilIndex
    THEN [r EXCEPT !.errors = r.errors \cup {o}]
    ELSE [r EXCEPT
            !.block.Allocations[o + 1] = NilIndex,
            !.block.Unallocated = Append(r.block.Unallocated, o)]

RECURSIVE ReleaseEach(_, _)
ReleaseEach(r, ordinals) ==
    IF ordinals = <<>> THEN r
    ELSE ReleaseEach(ReleaseOne(r, Head(ordinals)), Tail(ordinals))

\* Release(ordinals): each ordinal on its own, errors collected
Release(b, ordinals) ==
    ReleaseEach([block |-> b, errors |-> {}], ordinals)

\* the ordinals, ascending from ordinal o, whose record has the handle
RECURSIVE OrdinalsOf(_, _, _)
OrdinalsOf(b, handleID, o) ==
    IF o >= Len(b.Allocations) THEN <<>>
    ELSE (IF /\ b.Allocations[o + 1] /= NilIndex
             /\ b.Attributes[b.Allocations[o + 1] + 1].handle_id = handleID
          THEN <<o>> ELSE <<>>) \o OrdinalsOf(b, handleID, o + 1)

\* ReleaseByHandle(handleID)
ReleaseByHandle(b, handleID) == Release(b, OrdinalsOf(b, handleID, 0))

\* Compact(): records without a referencing ordinal go, indices are renumbered
Compact(b) ==
    LET used == {b.Allocations[i] : i \in 1..Len(b.Allocations)}
        shift(k) == Cardinality({j \in 0..(k - 1) : j \notin used})
        kept == SelectSeq([i \in 1..Len(b.Attributes) |-> i - 1],
                          LAMBDA k : k \in used)
    IN  [b EXCEPT
           !.Attributes = [i \in 1..Len(kept) |-> b.Attributes[kept[i] + 1]],
           !.Allocations =
               [i \in 1..Len(b.Allocations) |->
                   IF b.Allocations[i] = NilIndex THEN NilIndex
                   ELSE b.Allocations[i] - shift(b.Allocations[i])]]

IdleCodec ==
    /\ pc = "unused"
    /\ input = [kind |-> "none", key |-> NoKey, path |-> <<>>, IPVersion |-> 0]
    /\ encKey = NoKey
    /\ encPath = <<>>
    /\ encErr = "nil"
    /\ decIn = <<>>
    /\ decRes = [kind |-> "nil", key |-> NoKey]
    /\ rootOut = <<>>

\* a ledger as created, with or without an affinity
InitLedger ==
    /\ IdleCodec
    /\ block \in {NewBlock(BlockSize, "", FALSE),
                  NewBlock(BlockSize, "nodeA", FALSE),
                  NewBlock(BlockSize, "nodeA", TRUE)}
    /\ lastOp = [op |-> "create", err |-> "nil"]
    /\ store = NoStore
    /\ writers = NoWriters

OrdinalLists ==
    UNION {[1..n -> 0..(BlockSize - 1)] : n \in 0..MaxCount}

DoAllocate ==
    /\ \E count \in 0..MaxCount, h \in Handles, sec \in Secondaries,
          host \in Hosts :
           /\ block' = Allocate(block, count, h, sec, host).block
           /\ lastOp' = [op |-> "Allocate",
                         err |-> Allocate(block, count, h, sec, host).err]
    /\ UNCHANGED <<codecVars, casVars>>

DoRelease ==
    /\ \E ordinals \in OrdinalLists :
           /\ block' = Release(block, ordinals).block
           /\ lastOp' = [op |-> "Release",
                         err |-> IF Release(block, ordinals).errors = {}
                                 THEN "nil" ELSE "AlreadyUnallocated"]
    /\ UNCHANGED <<codecVars, casVars>>

DoReleaseByHandle ==
    /\ \E h \in Handles :
           /\ block' = ReleaseByHandle(block, h).block
           /\ lastOp' = [op |-> "ReleaseByHandle", err |-> "nil"]
    /\ UNCHANGED <<codecVars, casVars>>

DoCompact ==
    /\ block' = Compact(block)
    /\ lastOp' = [op |-> "Compact", err |-> "nil"]
    /\ UNCHANGED <<codecVars, casVars>>

NextLedger ==
    \/ DoAllocate
    \/ DoRelease
    \/ DoReleaseByHandle
    \/ DoCompact

SpecLedger == InitLedger /\ [][NextLedger]_vars

(***************************************************************************)
(* Properties of the ledger                                                *)
(***************************************************************************)
\* C7: after creation and after every Allocate, Release, ReleaseByHandle
\* and Compact, each ordinal of the block either has a non-empty
\* Allocations entry or is in Unallocated, never both and never neither,
\* and Unallocated holds no duplicate and no ordinal out of range.
C7_Partition ==
    /\ \A o \in 0..(Len(block.Allocations) - 1) :
           (block.Allocations[o + 1] /= NilIndex)
               <=> (o \notin SeqToSet(block.Unallocated))
    /\ \A i \in 1..Len(block.Unallocated) :
           /\ block.Unallocated[i] \in 0..(Len(block.Allocations) - 1)
           /\ \A j \in 1..Len(block.Unallocated) :
                  i /= j => block.Unallocated[i] /= block.Unallocated[j]

\* two claims, a release of the first and a compaction have happened
C7_Witness ==
    /\ lastOp.op = "Compact"
    /\ block.Allocations[1] = NilIndex
    /\ block.Allocations[2] = 0
    /\ block.Attributes = <<[handle_id |-> "h2", secondary |-> <<>>]>>
    /\ block.Unallocated[Len(block.Unallocated)] = 0

(***************************************************************************)
(* The optimistic-concurrency access pattern: writers on different nodes   *)
(* run read-mutate-CAS-write cycles against one block key.  Writer w       *)
(* claims under its own handle; held is what its committed calls returned  *)
(* to it and it has not released since.                                    *)
(***************************************************************************)
NumWriters == 2
MaxCycles == 3
MaxRetries == 2

Writers == 1..NumWriters
WriterHandle(w) == <<"w">> \o uitoa(w)

LogicalOps ==
    {[kind |-> "Allocate", count |-> c] : c \in 1..MaxCount}
    \cup {[kind |-> "ReleaseByHandle", count |-> 0]}

\* the logical operation of writer w applied to a snapshot of the ledger
Apply(w, op, b) ==
    IF op.kind = "Allocate"
    THEN [block |-> Allocate(b, op.count, WriterHandle(w), <<>>, "").block,
          ordinals |-> SeqToSet(Allocate(b, op.count, WriterHandle(w), <<>>,
                                         "").ordinals)]
    ELSE [block |-> ReleaseByHandle(b, WriterHandle(w)).block,
          ordinals |-> {}]

\* the datastore writes unconditionally
CasAccepts_Blind(current, expected) == TRUE

\* the datastore's compare: the write is taken when the key is still at the
\* revision the writer read
CasAccepts(current, expected) == current = expected

\* cycles begun so far by writers 1..w
RECURSIVE CyclesBegun(_, _)
CyclesBegun(ws, w) ==
    IF w = 0 THEN 0 ELSE ws[w].cycles + CyclesBegun(ws, w - 1)

IdleWriter ==
    [pc |-> "idle", op |-> [kind |-> "none", count |-> 0], rev |-> 0,
     pending |-> NoBlock, claimed |-> {}, attempts |-> 0, cycles |-> 0,
     held |-> {}, err |-> "nil"]

InitCas ==
    /\ IdleCodec
    /\ block = NoBlock
    /\ lastOp = NoOp
    /\ store = [rev |-> 1, block |-> NewBlock(BlockSize, "", FALSE)]
    /\ writers = [w \in Writers |-> IdleWriter]

\* a caller on node w asks for a mutation
Begin(w) ==
    /\ writers[w].pc = "idle"
    /\ CyclesBegun(writers, NumWriters) < MaxCycles
    /\ \E op \in LogicalOps :
           writers' = [writers EXCEPT ![w].pc = "fetch", ![w].op = op,
                                      ![w].attempts = 0, ![w].err = "nil",
                                      ![w].cycles = @ + 1]
    /\ UNCHANGED <<codecVars, ledgerVars, store>>

\* get-with-revision, then the logical operation on the copy read
FetchAndMutate(w) ==
    /\ writers[w].pc = "fetch"
    /\ writers' = [writers EXCEPT
                      ![w].pc = "cas",
                      ![w].rev = store.rev,
                      ![w].pending = Apply(w, writers[w].op, store.block).block,
                      ![w].claimed =
                          Apply(w, writers[w].op, store.block).ordinals]
    /\ UNCHANGED <<codecVars, ledgerVars, store>>

\* compare-and-swap-write of the mutated copy; a rejected writer fetches
\* again until its attempts are used up
CompareAndSwap(w) ==
    /\ writers[w].pc = "cas"
    /\ IF CasAccepts(store.rev, writers[w].rev)
       THEN /\ store' = [rev |-> store.rev + 1, block |-> writers[w].pending]
            /\ writers' = [writers EXCEPT
                              ![w].pc = "idle",
                              ![w].held =
                                  IF writers[w].op.kind = "Allocate"
                                  THEN @ \cup writers[w].claimed ELSE {}]
       ELSE /\ store' = store
            /\ writers' = [writers EXCEPT
                              ![w].attempts = @ + 1,
                              ![w].pc = IF writers[w].attempts + 1 >= MaxRetries
                                        THEN "idle" ELSE "fetch",
                              ![w].err = IF writers[w].attempts + 1
                                              >= MaxRetries
                                         THEN "ConcurrentModification"
                                         ELSE "nil"]
    /\ UNCHANGED <<codecVars, ledgerVars>>

NextCas ==
    \E w \in Writers :
        \/ Begin(w)
        \/ FetchAndMutate(w)
        \/ CompareAndSwap(w)

SpecCas == InitCas /\ [][NextCas]_vars

\* the writer whose handle tags ordinal o in the persisted ledger
HolderInStore(o) ==
    {w \in Writers :
        /\ store.block.Allocations[o + 1] /= NilIndex
        /\ store.block.Attributes[store.block.Allocations[o + 1] + 1].handle_id
               = WriterHandle(w)}

\* C8: no update is lost under concurrent writers: every ordinal a
\* committed allocation gave to a writer is, until that writer's committed
\* release, tagged in the persisted ledger with that writer's handle, no
\* ordinal is held by two writers, and the persisted ledger tags nothing a
\* writer does not hold.
C8_NoLostUpdate ==
    /\ \A w \in DOMAIN writers :
           \A o \in writers[w].held : HolderInStore(o) = {w}
    /\ \A w1 \in DOMAIN writers, w2 \in DOMAIN writers :
           w1 /= w2 => writers[w1].held \cap writers[w2].held = {}
    /\ \A o \in 0..(Len(store.block.Allocations) - 1) :
           \A w \in HolderInStore(o) : o \in writers[w].held

\* writer 1 lost a race, fetched again and committed behind writer 2
C8_Witness ==
    /\ writers[1].attempts >= 1
    /\ writers[1].pc = "idle"
    /\ writers[1].err = "nil"
    /\ writers[1].held /= {}
    /\ writers[2].held /= {}

=============================================================================
